---- MODULE Spec2Model ----
(***************************************************************************)
(* State-machine model of contracts/Votingsystem.sol (VotingSystem is      *)
(* Ownable, ReentrancyGuard).  One action per external function of the     *)
(* contract; a call that reverts leaves the contract storage and the event *)
(* log as they were and is visible only in lastCall.result.  lastCall and  *)
(* pre record the latest call and the ledger it started from, so that what *)
(* a call did can be read off a single state.                              *)
(***************************************************************************)
EXTENDS Integers, Sequences, FiniteSets, TLC

(* ------------------------------ bounds -------------------------------- *)
\* number of externally owned accounts that send transactions
NumIdentities == 2
\* cap on the number of successful addCandidate calls explored
MaxCandidates == 2
\* cap on the length of the event log explored
MaxEvents == 5
\* cap on block.timestamp explored
MaxTime == 1
\* cap on the number of requests of the front end in flight together
MaxInFlight == 2

(* ----------------------------- value sets ----------------------------- *)
\* address(0)
ZeroAddress == 0
Identities == 1..NumIdentities
\* the account that deploys the contract: the first signer
Deployer == 1
\* candidate ids that callers pass: 0, the ids that can exist, one beyond
CandidateIds == 0..(MaxCandidates + 1)
\* (name, description) pairs passed to addCandidate; "" is the empty string
CandidateInputs == {<<"Alice", "Candidate 1">>, <<"", "Candidate 2">>, <<"Bob", "">>}

(* ------------------------------ outcomes ------------------------------ *)
Ok == "ok"
\* Ownable: revert OwnableUnauthorizedAccount(msg.sender)
Unauthorized == "OwnableUnauthorizedAccount"
\* Ownable: revert OwnableInvalidOwner(address(0))
InvalidOwner == "OwnableInvalidOwner"
VotingInactive == "Voting is not active"
AlreadyVoted == "You have already voted"
UnknownCandidate == "Candidate does not exist"
\* the error kind the specification names for empty candidate fields
InvalidInput == "InvalidInput"

VARIABLES
    candidates,      \* mapping(uint256 => Candidate)
    voters,          \* mapping(address => Voter)
    candidateCount,  \* uint256
    totalVotes,      \* uint256
    votingActive,    \* bool
    owner,           \* Ownable._owner
    events,          \* log of the events declared at Votingsystem.sol:32-34, in emission order
    blockTimestamp,  \* block.timestamp of the block being executed
    lastCall,        \* the most recent transaction and its outcome
    pre,             \* the ledger as it was when that transaction started
    pending,         \* requests in flight: vote transactions sent and not yet
                     \* executed, reads of the results panel not yet delivered
    outcomes,        \* the executed vote transactions, with their outcomes
    panel            \* the ResultsPanel component's state: candidates, loading, error

ledger == <<candidates, voters, candidateCount, totalVotes, votingActive, owner, events>>
vars == <<candidates, voters, candidateCount, totalVotes, votingActive, owner,
          events, blockTimestamp, lastCall, pre, pending, outcomes, panel>>

\* the ledger as one value
Snapshot ==
    [candidates |-> candidates, voters |-> voters, candidateCount |-> candidateCount,
     totalVotes |-> totalVotes, votingActive |-> votingActive, owner |-> owner,
     events |-> events]

\* the value of an unset mapping slot
NoCandidate == [id |-> 0, name |-> "", description |-> "", voteCount |-> 0, exists |-> FALSE]
NoVoter == [hasVoted |-> FALSE, votedFor |-> 0, timestamp |-> 0]

\* what the vote handler knows of the fraud advisory; the contract's own
\* functions take no such input
NoAdvisory == [enabled |-> FALSE, error |-> FALSE, fraud_probability |-> 0, confirms |-> FALSE]
\* how far the front end's contract.vote(candidateId) has come: not called
\* ("none"), rejected by the provider's check of the ledger ("refused"),
\* waiting for the wallet's user ("asking"), broadcast ("signed") or refused by
\* that user ("rejected"); why it was rejected ("" when it was not); and how
\* many transactions of the account were in flight, and how many of its
\* calls were waiting for the wallet's user, when the step began. The
\* contract's own functions know nothing of it
NoWallet == [stage |-> "none", failure |-> "", queued |-> 0, asked |-> 0]
\* ResultsPanel's useState([]), useState(true), useState('')
NoResults == [candidates |-> <<>>, loading |-> TRUE, error |-> ""]

\* a call of a function that changes state; none of them returns a value
Call(op, sender, cid, name, description, newOwner, result) ==
    [op |-> op, sender |-> sender, candidateId |-> cid, name |-> name,
     description |-> description, newOwner |-> newOwner, voter |-> ZeroAddress,
     result |-> result, returns |-> <<>>, advisory |-> NoAdvisory, wallet |-> NoWallet]
\* a call of a view function; msg.sender is not read by any of them
ReadCall(op, cid, voter, result, returns) ==
    [op |-> op, sender |-> ZeroAddress, candidateId |-> cid, name |-> "",
     description |-> "", newOwner |-> ZeroAddress, voter |-> voter,
     result |-> result, returns |-> returns, advisory |-> NoAdvisory,
     wallet |-> NoWallet]
\* a call of one of the front end's vote handlers: the account, the candidate,
\* what the handler was told, what it did and what became of contract.vote
HandlerCall(op, account, cid, advisory, result, wallet) ==
    [op |-> op, sender |-> account, candidateId |-> cid,
     name |-> "", description |-> "", newOwner |-> ZeroAddress, voter |-> ZeroAddress,
     result |-> result, returns |-> <<>>, advisory |-> advisory, wallet |-> wallet]
NoCall == Call("none", ZeroAddress, 0, "", "", ZeroAddress, Ok)

(* ------------------------------- events ------------------------------- *)
Event(type, candidateId, name, voter, timestamp, active) ==
    [type |-> type, candidateId |-> candidateId, name |-> name, voter |-> voter,
     timestamp |-> timestamp, active |-> active]

\* mutant: the event is emitted with the count read before the increment
CandidateAdded_previousId(candidateId, name) ==
    Event("CandidateAdded", candidateId - 1, name, ZeroAddress, 0, FALSE)

CandidateAdded(candidateId, name) ==
    Event("CandidateAdded", candidateId, name, ZeroAddress, 0, FALSE)

\* mutant: the event does not carry block.timestamp
VoteCast_noTimestamp(voter, candidateId, timestamp) ==
    Event("VoteCast", candidateId, "", voter, 0, FALSE)

\* mutant: the two uint256 arguments of the emit are swapped
VoteCast_swapped(voter, candidateId, timestamp) ==
    Event("VoteCast", timestamp, "", voter, candidateId, FALSE)

VoteCast(voter, candidateId, timestamp) ==
    Event("VoteCast", candidateId, "", voter, timestamp, FALSE)

\* the numbers an event of each type is declared with
NumbersOf(e) ==
    IF e.type = "CandidateAdded" THEN {"candidateId"}
    ELSE IF e.type = "VoteCast" THEN {"candidateId", "timestamp"}
    ELSE {}

\* mutant: the event is emitted with the flag read before the assignment
VotingStatusChanged_previous(active) ==
    Event("VotingStatusChanged", 0, "", ZeroAddress, 0, ~active)

VotingStatusChanged(active) ==
    Event("VotingStatusChanged", 0, "", ZeroAddress, 0, active)

(* ------------------------------ modifiers ----------------------------- *)
\* mutant: the owner check is dropped
onlyOwner_dropped(sender) == TRUE

onlyOwner(sender) == owner = sender

\* mutant: the phase check is dropped
onlyDuringVoting_dropped == TRUE

onlyDuringVoting == votingActive

\* mutant: the duplicate-vote check is dropped
hasNotVoted_dropped(sender) == TRUE

hasNotVoted(sender) == ~voters[sender].hasVoted

\* mutant: the existence check is dropped
validCandidate_dropped(cid) == TRUE

\* mutant: a range check that forgets candidate id 0
validCandidate_upperOnly(cid) == cid <= candidateCount

validCandidate(cid) == candidates[cid].exists

(* ----------------------------- constructor ---------------------------- *)
\* mutant: the constructor opens the voting phase
Init_active ==
    /\ owner = Deployer
    /\ votingActive = TRUE
    /\ candidateCount = 0
    /\ totalVotes = 0
    /\ candidates = [i \in CandidateIds |-> NoCandidate]
    /\ voters = [a \in Identities |-> NoVoter]
    /\ events = <<>>
    /\ blockTimestamp = 0
    /\ lastCall = NoCall
    /\ pre = Snapshot
    /\ pending = {}
    /\ outcomes = {}
    /\ panel = NoResults

\* constructor() Ownable(msg.sender), sent by Deployer
Init ==
    /\ owner = Deployer
    /\ votingActive = FALSE
    /\ candidateCount = 0
    /\ totalVotes = 0
    /\ candidates = [i \in CandidateIds |-> NoCandidate]
    /\ voters = [a \in Identities |-> NoVoter]
    /\ events = <<>>
    /\ blockTimestamp = 0
    /\ lastCall = NoCall
    /\ pre = Snapshot
    /\ pending = {}
    /\ outcomes = {}
    /\ panel = NoResults

(* ------------------------------ functions ----------------------------- *)
\* mutant: candidates can only be added while the phase is closed
addCandidateResult_closedPhaseOnly(sender, name, description) ==
    IF ~onlyOwner(sender) THEN Unauthorized
    ELSE IF votingActive THEN VotingInactive
    ELSE Ok

addCandidateResult(sender, name, description) ==
    IF ~onlyOwner(sender) THEN Unauthorized ELSE Ok

\* mutant: the candidate is stored before candidateCount is incremented
addCandidate_storeFirst(sender, name, description) ==
    LET result == addCandidateResult(sender, name, description) IN
    /\ lastCall' = Call("addCandidate", sender, 0, name, description, ZeroAddress, result)
    /\ pre' = Snapshot
    /\ IF result = Ok
       THEN /\ candidateCount' = candidateCount + 1
            /\ candidates' = [candidates EXCEPT ![candidateCount] =
                   [id |-> candidateCount, name |-> name, description |-> description,
                    voteCount |-> 0, exists |-> TRUE]]
            /\ events' = Append(events, CandidateAdded(candidateCount', name))
            /\ UNCHANGED <<voters, totalVotes, votingActive, owner>>
       ELSE UNCHANGED ledger
    /\ UNCHANGED blockTimestamp

\* mutant: candidateCount is not incremented, so every candidate is stored
\* under the same id
addCandidate_noIncrement(sender, name, description) ==
    LET result == addCandidateResult(sender, name, description) IN
    /\ lastCall' = Call("addCandidate", sender, 0, name, description, ZeroAddress, result)
    /\ pre' = Snapshot
    /\ IF result = Ok
       THEN /\ candidates' = [candidates EXCEPT ![candidateCount] =
                   [id |-> candidateCount, name |-> name, description |-> description,
                    voteCount |-> 0, exists |-> TRUE]]
            /\ events' = Append(events, CandidateAdded(candidateCount, name))
            /\ UNCHANGED <<voters, candidateCount, totalVotes, votingActive, owner>>
       ELSE UNCHANGED ledger
    /\ UNCHANGED blockTimestamp

addCandidate(sender, name, description) ==
    LET result == addCandidateResult(sender, name, description) IN
    /\ lastCall' = Call("addCandidate", sender, 0, name, description, ZeroAddress, result)
    /\ pre' = Snapshot
    /\ IF result = Ok
       THEN /\ candidateCount' = candidateCount + 1
            /\ candidates' = [candidates EXCEPT ![candidateCount'] =
                   [id |-> candidateCount', name |-> name, description |-> description,
                    voteCount |-> 0, exists |-> TRUE]]
            /\ events' = Append(events, CandidateAdded(candidateCount', name))
            /\ UNCHANGED <<voters, totalVotes, votingActive, owner>>
       ELSE UNCHANGED ledger
    /\ UNCHANGED blockTimestamp

\* mutant: the existence check runs before the duplicate-vote check
voteResult_existenceFirst(sender, cid) ==
    IF ~onlyDuringVoting THEN VotingInactive
    ELSE IF ~validCandidate(cid) THEN UnknownCandidate
    ELSE IF ~hasNotVoted(sender) THEN AlreadyVoted
    ELSE Ok

\* mutant: the phase check runs last
voteResult_phaseLast(sender, cid) ==
    IF ~hasNotVoted(sender) THEN AlreadyVoted
    ELSE IF ~validCandidate(cid) THEN UnknownCandidate
    ELSE IF ~onlyDuringVoting THEN VotingInactive
    ELSE Ok

\* mutant: the owner is barred from voting
voteResult_ownerBarred(sender, cid) ==
    IF ~onlyDuringVoting THEN VotingInactive
    ELSE IF onlyOwner(sender) THEN Unauthorized
    ELSE IF ~hasNotVoted(sender) THEN AlreadyVoted
    ELSE IF ~validCandidate(cid) THEN UnknownCandidate
    ELSE Ok

voteResult(sender, cid) ==
    IF ~onlyDuringVoting THEN VotingInactive
    ELSE IF ~hasNotVoted(sender) THEN AlreadyVoted
    ELSE IF ~validCandidate(cid) THEN UnknownCandidate
    ELSE Ok

\* mutant: the voter is recorded before the existence check and the failure
\* does not undo it
vote_recordsThenFails(sender, cid) ==
    LET result == voteResult(sender, cid) IN
    /\ lastCall' = Call("vote", sender, cid, "", "", ZeroAddress, result)
    /\ pre' = Snapshot
    /\ IF result = Ok
       THEN /\ voters' = [voters EXCEPT ![sender] =
                   [hasVoted |-> TRUE, votedFor |-> cid, timestamp |-> blockTimestamp]]
            /\ candidates' = [candidates EXCEPT ![cid].voteCount = @ + 1]
            /\ totalVotes' = totalVotes + 1
            /\ events' = Append(events, VoteCast(sender, cid, blockTimestamp))
            /\ UNCHANGED <<candidateCount, votingActive, owner>>
       ELSE IF result = UnknownCandidate
       THEN /\ voters' = [voters EXCEPT ![sender] =
                   [hasVoted |-> TRUE, votedFor |-> cid, timestamp |-> blockTimestamp]]
            /\ UNCHANGED <<candidates, candidateCount, totalVotes, votingActive,
                           owner, events>>
       ELSE UNCHANGED ledger
    /\ UNCHANGED blockTimestamp

\* mutant: the vote is recorded and counted for the candidate but not in
\* totalVotes
vote_forgetsTotal(sender, cid) ==
    LET result == voteResult(sender, cid) IN
    /\ lastCall' = Call("vote", sender, cid, "", "", ZeroAddress, result)
    /\ pre' = Snapshot
    /\ IF result = Ok
       THEN /\ voters' = [voters EXCEPT ![sender] =
                   [hasVoted |-> TRUE, votedFor |-> cid, timestamp |-> blockTimestamp]]
            /\ candidates' = [candidates EXCEPT ![cid].voteCount = @ + 1]
            /\ events' = Append(events, VoteCast(sender, cid, blockTimestamp))
            /\ UNCHANGED <<candidateCount, totalVotes, votingActive, owner>>
       ELSE UNCHANGED ledger
    /\ UNCHANGED blockTimestamp

\* mutant: the vote is counted for the candidate added last
vote_countsLastCandidate(sender, cid) ==
    LET result == voteResult(sender, cid) IN
    /\ lastCall' = Call("vote", sender, cid, "", "", ZeroAddress, result)
    /\ pre' = Snapshot
    /\ IF result = Ok
       THEN /\ voters' = [voters EXCEPT ![sender] =
                   [hasVoted |-> TRUE, votedFor |-> cid, timestamp |-> blockTimestamp]]
            /\ candidates' = [candidates EXCEPT ![candidateCount].voteCount = @ + 1]
            /\ totalVotes' = totalVotes + 1
            /\ events' = Append(events, VoteCast(sender, cid, blockTimestamp))
            /\ UNCHANGED <<candidateCount, votingActive, owner>>
       ELSE UNCHANGED ledger
    /\ UNCHANGED blockTimestamp

vote(sender, cid) ==
    LET result == voteResult(sender, cid) IN
    /\ lastCall' = Call("vote", sender, cid, "", "", ZeroAddress, result)
    /\ pre' = Snapshot
    /\ IF result = Ok
       THEN /\ voters' = [voters EXCEPT ![sender] =
                   [hasVoted |-> TRUE, votedFor |-> cid, timestamp |-> blockTimestamp]]
            /\ candidates' = [candidates EXCEPT ![cid].voteCount = @ + 1]
            /\ totalVotes' = totalVotes + 1
            /\ events' = Append(events, VoteCast(sender, cid, blockTimestamp))
            /\ UNCHANGED <<candidateCount, votingActive, owner>>
       ELSE UNCHANGED ledger
    /\ UNCHANGED blockTimestamp

toggleVotingResult(sender) ==
    IF ~onlyOwner(sender) THEN Unauthorized ELSE Ok

\* mutant: opening the phase starts a new count
toggleVoting_resetsTally(sender) ==
    LET result == toggleVotingResult(sender) IN
    /\ lastCall' = Call("toggleVoting", sender, 0, "", "", ZeroAddress, result)
    /\ pre' = Snapshot
    /\ IF result = Ok
       THEN /\ votingActive' = ~votingActive
            /\ events' = Append(events, VotingStatusChanged(votingActive'))
            /\ candidates' = [i \in CandidateIds |-> [candidates[i] EXCEPT !.voteCount = 0]]
            /\ totalVotes' = 0
            /\ UNCHANGED <<voters, candidateCount, owner>>
       ELSE UNCHANGED ledger
    /\ UNCHANGED blockTimestamp

\* mutant: opening the phase forgets who has voted
toggleVoting_clearsVoters(sender) ==
    LET result == toggleVotingResult(sender) IN
    /\ lastCall' = Call("toggleVoting", sender, 0, "", "", ZeroAddress, result)
    /\ pre' = Snapshot
    /\ IF result = Ok
       THEN /\ votingActive' = ~votingActive
            /\ events' = Append(events, VotingStatusChanged(votingActive'))
            /\ voters' = [a \in Identities |-> NoVoter]
            /\ UNCHANGED <<candidates, candidateCount, totalVotes, owner>>
       ELSE UNCHANGED ledger
    /\ UNCHANGED blockTimestamp

toggleVoting(sender) ==
    LET result == toggleVotingResult(sender) IN
    /\ lastCall' = Call("toggleVoting", sender, 0, "", "", ZeroAddress, result)
    /\ pre' = Snapshot
    /\ IF result = Ok
       THEN /\ votingActive' = ~votingActive
            /\ events' = Append(events, VotingStatusChanged(votingActive'))
            /\ UNCHANGED <<candidates, voters, candidateCount, totalVotes, owner>>
       ELSE UNCHANGED ledger
    /\ UNCHANGED blockTimestamp

(* ------------------ functions inherited from Ownable ------------------ *)
transferOwnershipResult(sender, newOwner) ==
    IF ~onlyOwner(sender) THEN Unauthorized
    ELSE IF newOwner = ZeroAddress THEN InvalidOwner
    ELSE Ok

transferOwnership(sender, newOwner) ==
    LET result == transferOwnershipResult(sender, newOwner) IN
    /\ lastCall' = Call("transferOwnership", sender, 0, "", "", newOwner, result)
    /\ pre' = Snapshot
    /\ IF result = Ok
       THEN /\ owner' = newOwner
            /\ UNCHANGED <<candidates, voters, candidateCount, totalVotes, votingActive, events>>
       ELSE UNCHANGED ledger
    /\ UNCHANGED blockTimestamp

renounceOwnershipResult(sender) ==
    IF ~onlyOwner(sender) THEN Unauthorized ELSE Ok

renounceOwnership(sender) ==
    LET result == renounceOwnershipResult(sender) IN
    /\ lastCall' = Call("renounceOwnership", sender, 0, "", "", ZeroAddress, result)
    /\ pre' = Snapshot
    /\ IF result = Ok
       THEN /\ owner' = ZeroAddress
            /\ UNCHANGED <<candidates, voters, candidateCount, totalVotes, votingActive, events>>
       ELSE UNCHANGED ledger
    /\ UNCHANGED blockTimestamp

(* ------------------------------ the chain ----------------------------- *)
\* a new block: block.timestamp advances
mine ==
    /\ blockTimestamp < MaxTime
    /\ blockTimestamp' = blockTimestamp + 1
    /\ lastCall' = NoCall
    /\ pre' = Snapshot
    /\ UNCHANGED ledger

\* the part of the unbounded state space that is explored
WithinBounds == candidateCount' <= MaxCandidates /\ Len(events') <= MaxEvents

Next ==
    \/ \E s \in Identities, in \in CandidateInputs :
           addCandidate(s, in[1], in[2]) /\ WithinBounds /\ UNCHANGED <<pending, outcomes, panel>>
    \/ \E s \in Identities, c \in CandidateIds :
           vote(s, c) /\ WithinBounds /\ UNCHANGED <<pending, outcomes, panel>>
    \/ \E s \in Identities :
           toggleVoting(s) /\ WithinBounds /\ UNCHANGED <<pending, outcomes, panel>>
    \/ \E s \in Identities, n \in Identities \cup {ZeroAddress} :
           transferOwnership(s, n) /\ UNCHANGED <<pending, outcomes, panel>>
    \/ \E s \in Identities :
           renounceOwnership(s) /\ UNCHANGED <<pending, outcomes, panel>>
    \/ mine /\ UNCHANGED <<pending, outcomes, panel>>

Spec == Init /\ [][Next]_vars

(* --------------------------- view functions --------------------------- *)
ReadOps == {"getCandidate", "getAllCandidates", "getResults", "hasVoted", "getVotingStats"}

\* mutant: getCandidate without the validCandidate modifier
getCandidateResult_unchecked(cid) == Ok

getCandidateResult(cid) ==
    IF ~validCandidate(cid) THEN UnknownCandidate ELSE Ok

\* returns (name, description, voteCount)
getCandidate(cid) ==
    LET result == getCandidateResult(cid)
        candidate == candidates[cid]
    IN  /\ lastCall' = ReadCall("getCandidate", cid, ZeroAddress, result,
               IF result = Ok
               THEN <<candidate.name, candidate.description, candidate.voteCount>>
               ELSE <<>>)
        /\ pre' = Snapshot
        /\ UNCHANGED <<ledger, blockTimestamp>>

\* the array allCandidates, filled for i = 1 .. candidateCount
allCandidates == [i \in 1..candidateCount |-> candidates[i]]

getAllCandidates ==
    /\ lastCall' = ReadCall("getAllCandidates", 0, ZeroAddress, Ok, <<allCandidates>>)
    /\ pre' = Snapshot
    /\ UNCHANGED <<ledger, blockTimestamp>>

\* mutant: the loop reads candidates[i-1] instead of candidates[i]
votes_shifted == [i \in 1..candidateCount |-> candidates[i - 1].voteCount]

\* the array votes, filled for i = 1 .. candidateCount
votes == [i \in 1..candidateCount |-> candidates[i].voteCount]

getResults ==
    /\ lastCall' = ReadCall("getResults", 0, ZeroAddress, Ok, <<votes>>)
    /\ pre' = Snapshot
    /\ UNCHANGED <<ledger, blockTimestamp>>

hasVoted(voter) ==
    /\ lastCall' = ReadCall("hasVoted", 0, voter, Ok, <<voters[voter].hasVoted>>)
    /\ pre' = Snapshot
    /\ UNCHANGED <<ledger, blockTimestamp>>

\* mutant: the first two return values are swapped
votingStats_swapped == <<totalVotes, candidateCount, votingActive>>

\* (totalCandidates, totalVotesCast, isVotingActive)
votingStats == <<candidateCount, totalVotes, votingActive>>

getVotingStats ==
    /\ lastCall' = ReadCall("getVotingStats", 0, ZeroAddress, Ok, votingStats)
    /\ pre' = Snapshot
    /\ UNCHANGED <<ledger, blockTimestamp>>

Reads ==
    \/ \E c \in CandidateIds : getCandidate(c) /\ UNCHANGED <<pending, outcomes, panel>>
    \/ getAllCandidates /\ UNCHANGED <<pending, outcomes, panel>>
    \/ getResults /\ UNCHANGED <<pending, outcomes, panel>>
    \/ \E a \in Identities : hasVoted(a) /\ UNCHANGED <<pending, outcomes, panel>>
    \/ getVotingStats /\ UNCHANGED <<pending, outcomes, panel>>

NextWithReads == Next \/ Reads

\* the contract with its view functions called between the transactions
SpecWithReads == Init /\ [][NextWithReads]_vars

(* ---------------------------- ResultsPanel ---------------------------- *)
\* Array.prototype.sort with (a, b) => b.voteCount - a.voteCount: a stable
\* sort, highest voteCount first
RECURSIVE insertByVoteCount(_, _)
insertByVoteCount(sorted, c) ==
    IF sorted = <<>> THEN <<c>>
    ELSE IF sorted[Len(sorted)].voteCount >= c.voteCount THEN Append(sorted, c)
    ELSE Append(insertByVoteCount(SubSeq(sorted, 1, Len(sorted) - 1), c),
                sorted[Len(sorted)])

RECURSIVE sortByVoteCount(_)
sortByVoteCount(list) ==
    IF list = <<>> THEN <<>>
    ELSE insertByVoteCount(sortByVoteCount(SubSeq(list, 1, Len(list) - 1)),
                           list[Len(list)])

\* candidateList.map(...).sort(...): what setCandidates is given
sortedCandidates(candidateList) == sortByVoteCount(candidateList)

\* Math.max(...list.map(c => c.voteCount)), for a list that is not empty
RECURSIVE maxVotes(_)
maxVotes(list) ==
    IF Len(list) = 1 THEN list[1].voteCount
    ELSE LET rest == maxVotes(SubSeq(list, 2, Len(list)))
         IN  IF list[1].voteCount >= rest THEN list[1].voteCount ELSE rest

\* null, as opposed to a list
Null == [isNull |-> TRUE, list |-> <<>>]

getLeader(list) ==
    IF Len(list) = 0 THEN Null
    ELSE LET atMax(c) == c.voteCount = maxVotes(list)
         IN  [isNull |-> FALSE, list |-> SelectSeq(list, atMax)]

\* mutant: the test that the maximum is above 0 is left out
isTie_zeroCounts(leaders) ==
    ~leaders.isNull /\ Len(leaders.list) > 1

isTie(leaders) ==
    ~leaders.isNull /\ Len(leaders.list) > 1 /\ leaders.list[1].voteCount > 0

\* setError('Failed to load results. Please refresh the page.')
LoadFailed == "Failed to load results. Please refresh the page."

\* a call of contract.getAllCandidates() the panel has sent and the node has
\* not run yet
Sent(k) == [id |-> k, answered |-> FALSE, rejected |-> FALSE, candidateList |-> <<>>]

\* loadResults up to its await, called on mount, by a tick of the auto-refresh
\* interval, or by handleRefresh, which sets loading first: the error is
\* cleared and the read is sent; loads already in flight are not waited for
loadResults(refresh) ==
    LET k == CHOOSE i \in 1..(Cardinality(pending) + 1) : \A r \in pending : r.id # i
    IN  /\ pending' = pending \cup {Sent(k)}
        /\ panel' = [panel EXCEPT !.error = "", !.loading = refresh \/ @]
        /\ UNCHANGED <<ledger, blockTimestamp, lastCall, pre, outcomes>>

\* the node runs getAllCandidates for one of the reads in flight, on the
\* ledger as it is then, or the call fails
getAllCandidatesAnswers(r, rejected) ==
    /\ r \in pending
    /\ ~r.answered
    /\ IF rejected
       THEN UNCHANGED <<ledger, blockTimestamp, lastCall, pre>>
       ELSE getAllCandidates
    /\ pending' = (pending \ {r}) \cup
           {[r EXCEPT !.answered = TRUE, !.rejected = rejected,
                      !.candidateList = IF rejected THEN <<>> ELSE allCandidates]}
    /\ UNCHANGED <<outcomes, panel>>

\* loadResults from its await on, for one of the answers, in whatever order
\* they arrive: setCandidates with the sorted list, or the catch branch with
\* setError; then setLoading(false)
loadResultsResumes(r) ==
    /\ r \in pending
    /\ r.answered
    /\ pending' = pending \ {r}
    /\ panel' = IF r.rejected
                THEN [panel EXCEPT !.error = LoadFailed, !.loading = FALSE]
                ELSE [panel EXCEPT !.candidates = sortedCandidates(r.candidateList),
                                   !.loading = FALSE]
    /\ UNCHANGED <<ledger, blockTimestamp, lastCall, pre, outcomes>>

\* which of its three returns the component renders
view ==
    IF panel.loading THEN "loading"
    ELSE IF panel.error # "" THEN "error"
    ELSE "results"
\* const leaders = getLeader(), computed from the component's state
leadersShown == getLeader(panel.candidates)
\* const isTie = leaders && leaders.length > 1 && leaders[0].voteCount > 0
isTieShown == isTie(leadersShown)

\* the part of the panel's unbounded runs that is explored
PanelWithinBounds == WithinBounds /\ Cardinality(pending') <= MaxInFlight

NextResultsPanel ==
    \/ \E in \in CandidateInputs : addCandidate(owner, in[1], in[2])
           /\ UNCHANGED <<pending, outcomes, panel>> /\ PanelWithinBounds
    \/ \E s \in Identities, c \in 1..MaxCandidates :
           vote(s, c) /\ lastCall'.result = Ok
               /\ UNCHANGED <<pending, outcomes, panel>> /\ PanelWithinBounds
    \/ toggleVoting(owner) /\ UNCHANGED <<pending, outcomes, panel>> /\ PanelWithinBounds
    \/ \E refresh \in BOOLEAN : loadResults(refresh) /\ PanelWithinBounds
    \/ \E r \in pending, rejected \in BOOLEAN :
           getAllCandidatesAnswers(r, rejected) /\ PanelWithinBounds
    \/ \E r \in pending : loadResultsResumes(r) /\ PanelWithinBounds

\* the contract with a results panel whose loads overlap the transactions
\* and each other
SpecResultsPanel == Init /\ [][NextResultsPanel]_vars

(* -------------------- transactions in flight together ------------------ *)
\* A ledger with MaxCandidates candidates and the phase active, as left by the
\* deployer's addCandidate calls and one toggleVoting; nobody has voted.
InitConcurrent ==
    /\ owner = Deployer
    /\ votingActive = TRUE
    /\ candidateCount = MaxCandidates
    /\ totalVotes = 0
    /\ candidates = [i \in CandidateIds |->
           IF i \in 1..MaxCandidates
           THEN [id |-> i, name |-> IF i = 1 THEN "Alice" ELSE "Bob",
                 description |-> IF i = 1 THEN "Candidate 1" ELSE "Candidate 2",
                 voteCount |-> 0, exists |-> TRUE]
           ELSE NoCandidate]
    /\ voters = [a \in Identities |-> NoVoter]
    /\ events = [i \in 1..MaxCandidates |->
                     CandidateAdded(i, IF i = 1 THEN "Alice" ELSE "Bob")]
                    \o <<VotingStatusChanged(TRUE)>>
    /\ blockTimestamp = 0
    /\ lastCall = NoCall
    /\ pre = Snapshot
    /\ pending = {}
    /\ outcomes = {}
    /\ panel = NoResults

\* an account signs and broadcasts vote(cid); nothing is executed yet
submitVote(sender, cid) ==
    LET tx == [sender |-> sender, candidateId |-> cid] IN
    /\ tx \notin pending
    /\ \A o \in outcomes : ~(o.sender = sender /\ o.candidateId = cid)
    /\ pending' = pending \cup {tx}
    /\ UNCHANGED <<ledger, blockTimestamp, lastCall, pre, outcomes, panel>>

\* the chain executes one of the transactions in flight, in any order; each
\* transaction runs vote from start to end on its own
executeVote(tx) ==
    /\ tx \in pending
    /\ vote(tx.sender, tx.candidateId)
    /\ pending' = pending \ {tx}
    /\ outcomes' = outcomes \cup {lastCall'}
    /\ UNCHANGED panel

NextConcurrent ==
    \/ \E s \in Identities, c \in 1..MaxCandidates : submitVote(s, c)
    \/ \E tx \in pending : executeVote(tx)

SpecConcurrent == InitConcurrent /\ [][NextConcurrent]_vars

(* --------------------- an election that is under way ------------------ *)
\* the part of such an election's unbounded runs that is explored
VotingProcessWithinBounds == Len(events') <= MaxCandidates + MaxEvents

\* votes and toggles sent to the contract by any account, one transaction
\* after the other
NextVotingProcess ==
    \/ \E s \in Identities, c \in CandidateIds :
           vote(s, c) /\ UNCHANGED <<pending, outcomes, panel>>
               /\ VotingProcessWithinBounds
    \/ \E s \in Identities :
           toggleVoting(s) /\ UNCHANGED <<pending, outcomes, panel>>
               /\ VotingProcessWithinBounds
    \/ mine /\ UNCHANGED <<pending, outcomes, panel>>

\* the contract once the owner has added the candidates and opened the phase
SpecVotingProcess == InitConcurrent /\ [][NextVotingProcess]_vars

(* --------------------- the front end's vote handler ------------------- *)
\* what the handler does with a request
Submitted == "submitted"
Cancelled == "cancelled by user"
Blocked == "blocked"

\* Error.message of a request the wallet's user refused to sign
UserRejected == "user rejected"

\* fraud_probability as the service reports it, in percent
Probabilities == {50, 90, 95}
\* what comes back from POST /analyze-vote: no usable answer, or an analysis
Unavailable == [ok |-> FALSE, fraud_probability |-> 0]
Responses == {Unavailable} \cup {[ok |-> TRUE, fraud_probability |-> p] : p \in Probabilities}

\* the analysis, or the safe defaults with the error when the call failed
analyzeFraudBeforeVoting(response) ==
    IF response.ok
    THEN [error |-> FALSE, fraud_probability |-> response.fraud_probability]
    ELSE [error |-> TRUE, fraud_probability |-> 0]

\* mutant: without an analysis the handler refuses to submit
handlerDecision_failClosed(enabled, fraudResult, confirms) ==
    IF enabled /\ fraudResult.error THEN Blocked
    ELSE IF enabled
    THEN IF fraudResult.fraud_probability > 50 /\ ~confirms THEN Cancelled
         ELSE IF fraudResult.fraud_probability > 90 THEN Blocked
         ELSE Submitted
    ELSE Submitted

\* mutant: the thresholds are compared with >= instead of >
handlerDecision_inclusive(enabled, fraudResult, confirms) ==
    IF enabled /\ ~fraudResult.error
    THEN IF fraudResult.fraud_probability >= 50 /\ ~confirms THEN Cancelled
         ELSE IF fraudResult.fraud_probability >= 90 THEN Blocked
         ELSE Submitted
    ELSE Submitted

\* the early returns before contract.vote
handlerDecision(enabled, fraudResult, confirms) ==
    IF enabled /\ ~fraudResult.error
    THEN IF fraudResult.fraud_probability > 50 /\ ~confirms THEN Cancelled
         ELSE IF fraudResult.fraud_probability > 90 THEN Blocked
         ELSE Submitted
    ELSE Submitted

\* the transactions of an account that are in flight: broadcast, not mined
inFlight(account) == {tx \in pending : tx.sender = account /\ tx.position > 0}
\* the calls of contract.vote of an account that wait for the wallet's user
asking(account) == {tx \in pending : tx.sender = account /\ tx.position = 0}

\* await contract.vote(candidateId), first part: the provider runs vote on
\* the ledger as it is and rejects with the reason of the revert; otherwise
\* the wallet asks its user, behind the questions it already has for the
\* account, and the handler waits
contractVote(account, cid) ==
    IF voteResult(account, cid) # Ok THEN pending
    ELSE pending \cup {[sender |-> account, candidateId |-> cid, position |-> 0,
                        prompt |-> Cardinality(asking(account)) + 1]}

\* what a handler knows of its call of contract.vote when it starts to wait
\* or is rejected at once
walletOutcome(account, cid) ==
    [stage |-> IF voteResult(account, cid) = Ok THEN "asking" ELSE "refused",
     failure |-> IF voteResult(account, cid) = Ok THEN "" ELSE voteResult(account, cid),
     queued |-> Cardinality(inFlight(account)),
     asked |-> Cardinality(asking(account))]

\* handleVoteWithFraudDetection from the click to its early return, to the
\* catch branch or to the wallet's question, for a connected account;
\* fraudDetectionEnabled, the service's response and the user's answer to
\* window.confirm are inputs. The waits before contract.vote read nothing of
\* the ledger. Nothing in it looks for a request of the account that is
\* still running.
handleVoteWithFraudDetection(account, cid, enabled, response, confirms) ==
    LET fraudResult == analyzeFraudBeforeVoting(response)
        result == handlerDecision(enabled, fraudResult, confirms)
        \* window.confirm is reached
        warned == enabled /\ ~fraudResult.error /\ fraudResult.fraud_probability > 50
        advisory == IF enabled
                    THEN [enabled |-> TRUE, error |-> fraudResult.error,
                          fraud_probability |-> fraudResult.fraud_probability,
                          confirms |-> warned /\ confirms]
                    ELSE NoAdvisory
    IN  /\ lastCall' = HandlerCall("handleVoteWithFraudDetection", account, cid,
               advisory, result,
               IF result = Submitted
               THEN walletOutcome(account, cid)
               ELSE [NoWallet EXCEPT !.queued = Cardinality(inFlight(account)),
                                     !.asked = Cardinality(asking(account))])
        /\ pre' = Snapshot
        /\ pending' = IF result = Submitted
                      THEN contractVote(account, cid)
                      ELSE pending
        /\ UNCHANGED <<ledger, blockTimestamp, outcomes, panel>>

\* VotingPanel.handleVote, the handler behind the voting tab's buttons, from
\* the click to the catch branch or to the wallet's question: contract.vote
\* at once, no advisory asked
handleVote(account, cid) ==
    /\ lastCall' = HandlerCall("handleVote", account, cid, NoAdvisory, Submitted,
                       walletOutcome(account, cid))
    /\ pre' = Snapshot
    /\ pending' = contractVote(account, cid)
    /\ UNCHANGED <<ledger, blockTimestamp, outcomes, panel>>

\* await contract.vote(candidateId), second part, on the ledger as it is by
\* then: the wallet's user answers one of the questions, in any order; he
\* signs and the transaction is broadcast behind those the account has in
\* flight now, or refuses and the call rejects. The handler that waited, of
\* either kind, goes on to 'Transaction submitted' or to its catch branch;
\* the ledger is not looked at again and no advisory is.
walletAnswers(request, signs) ==
    /\ request \in pending
    /\ request.position = 0
    /\ lastCall' = HandlerCall("walletAnswers", request.sender, request.candidateId,
                       NoAdvisory, Submitted,
                       [stage |-> IF signs THEN "signed" ELSE "rejected",
                        failure |-> IF signs THEN "" ELSE UserRejected,
                        queued |-> Cardinality(inFlight(request.sender)),
                        asked |-> Cardinality(asking(request.sender))])
    /\ pre' = Snapshot
    /\ pending' =
           {[t EXCEPT !.prompt = IF t.sender = request.sender /\ @ > request.prompt
                                 THEN @ - 1 ELSE @] : t \in pending \ {request}}
           \cup (IF signs
                 THEN {[sender |-> request.sender, candidateId |-> request.candidateId,
                        position |-> Cardinality(inFlight(request.sender)) + 1,
                        prompt |-> 0]}
                 ELSE {})
    /\ UNCHANGED <<ledger, blockTimestamp, outcomes, panel>>

\* await tx.wait(): the chain executes the account's oldest transaction in
\* flight, and those behind it move up
confirmVote(tx) ==
    /\ tx \in pending
    /\ tx.position = 1
    /\ vote(tx.sender, tx.candidateId)
    /\ pending' = {[t EXCEPT !.position = IF t.sender = tx.sender /\ @ > 0
                                          THEN @ - 1 ELSE @] :
                       t \in pending \ {tx}}
    /\ UNCHANGED <<outcomes, panel>>

\* the part of the handlers' unbounded runs that is explored
HandlerWithinBounds ==
    /\ Cardinality(pending') <= MaxInFlight
    /\ Len(events') <= MaxCandidates + MaxEvents

NextHandler ==
    \/ \E a \in Identities, c \in CandidateIds \ {0}, enabled \in BOOLEAN :
       \E response \in IF enabled THEN Responses ELSE {Unavailable},
          confirms \in BOOLEAN :
          handleVoteWithFraudDetection(a, c, enabled, response, confirms)
              /\ HandlerWithinBounds
    \/ \E a \in Identities, c \in CandidateIds \ {0} :
          handleVote(a, c) /\ HandlerWithinBounds
    \/ \E request \in pending, signs \in BOOLEAN :
          walletAnswers(request, signs) /\ HandlerWithinBounds
    \/ \E tx \in pending : confirmVote(tx) /\ HandlerWithinBounds
    \/ toggleVoting(owner) /\ UNCHANGED <<pending, outcomes, panel>>
           /\ HandlerWithinBounds

\* votes cast through the front end, on a ledger prepared by the owner
SpecHandler == InitConcurrent /\ [][NextHandler]_vars

(* ======================= properties of the ledger ===================== *)
\* the last call left the ledger and the log as they were
LedgerUnchanged == Snapshot = pre

\* the event the last call appended, if it appended one
Appended(type) ==
    /\ Len(events) = Len(pre.events) + 1
    /\ events[Len(events)].type = type

VoteCastBy(a) == {i \in 1..Len(events) : events[i].type = "VoteCast" /\ events[i].voter = a}

RECURSIVE SumVoteCount(_)
SumVoteCount(n) == IF n = 0 THEN 0 ELSE candidates[n].voteCount + SumVoteCount(n - 1)

\* C1: in every reachable state each identity has at most one VoteCast event,
\* whatever calls were made and however often the phase was toggled.
C1_AtMostOneVote == \A a \in Identities : Cardinality(VoteCastBy(a)) <= 1

\* an identity that voted, saw the phase go off and on again, and was then
\* refused a second vote
C1_Witness ==
    /\ lastCall.op = "vote"
    /\ lastCall.result = AlreadyVoted
    /\ \E i, j, k \in 1..Len(events) :
          /\ i < j /\ j < k
          /\ events[i].type = "VoteCast" /\ events[i].voter = lastCall.sender
          /\ events[j].type = "VotingStatusChanged" /\ ~events[j].active
          /\ events[k].type = "VotingStatusChanged" /\ events[k].active

\* C2: in every reachable state the voteCounts of candidates 1..candidateCount
\* add up to totalVotes.
C2_TallyConsistent == SumVoteCount(candidateCount) = totalVotes

\* two votes cast, for two different candidates
C2_Witness ==
    /\ totalVotes = 2
    /\ candidateCount = 2
    /\ candidates[1].voteCount = 1
    /\ candidates[2].voteCount = 1

ExecutedBy(a) == {o \in outcomes : o.sender = a}
SucceededBy(a) == {o \in ExecutedBy(a) : o.result = Ok}

\* C3: of the votes one identity has in flight together for different existing
\* candidates, whatever the order of execution, exactly one succeeds, the
\* others fail with AlreadyVoted, and totalVotes grows by one per identity.
C3_OneOfConcurrentVotes ==
    /\ \A a \in Identities :
          /\ ExecutedBy(a) # {} => Cardinality(SucceededBy(a)) = 1
          /\ \A o \in ExecutedBy(a) \ SucceededBy(a) : o.result = AlreadyVoted
    /\ totalVotes = Cardinality({a \in Identities : ExecutedBy(a) # {}})

\* all transactions executed, every identity having had a vote in flight for
\* every candidate, and the vote that won is not the one for candidate 1
C3_Witness ==
    /\ pending = {}
    /\ \A a \in Identities : Cardinality(ExecutedBy(a)) = MaxCandidates
    /\ \E a \in Identities : voters[a].votedFor # 1

\* C4: addCandidate and toggleVoting sent by anyone but the owner fail with
\* Unauthorized and leave the whole ledger and the log unchanged; every
\* CandidateAdded or VotingStatusChanged appended by a call comes from a call
\* of the matching function sent by the owner.
C4_AdminOnly ==
    /\ (lastCall.op \in {"addCandidate", "toggleVoting"} /\ lastCall.sender # pre.owner)
          => (lastCall.result = Unauthorized /\ LedgerUnchanged)
    /\ Appended("CandidateAdded")
          => (lastCall.op = "addCandidate" /\ lastCall.sender = pre.owner)
    /\ Appended("VotingStatusChanged")
          => (lastCall.op = "toggleVoting" /\ lastCall.sender = pre.owner)

\* a non-owner was refused addCandidate on a ledger that already holds a
\* candidate and a vote
C4_Witness ==
    /\ lastCall.op = "addCandidate"
    /\ lastCall.sender # owner
    /\ lastCall.name # "" /\ lastCall.description # ""
    /\ lastCall.result = Unauthorized
    /\ candidateCount >= 1
    /\ totalVotes >= 1

\* C5: vote sent while the phase is inactive fails with VotingInactive for
\* every sender and candidate id and changes no voteCount, totalVotes or
\* voter record (nor anything else in the ledger).
C5_PhaseGating ==
    (lastCall.op = "vote" /\ ~pre.votingActive)
        => (lastCall.result = VotingInactive /\ LedgerUnchanged)

\* an eligible identity was refused a vote for an existing candidate after the
\* phase had been switched off again
C5_Witness ==
    /\ lastCall.op = "vote"
    /\ lastCall.result = VotingInactive
    /\ candidates[lastCall.candidateId].exists
    /\ ~voters[lastCall.sender].hasVoted
    /\ \E i \in 1..Len(events) : events[i].type = "VotingStatusChanged" /\ events[i].active

\* C6: a vote sent by an identity whose own successful vote is the latest
\* change of the ledger fails with AlreadyVoted whatever the candidate id, and
\* so does every vote of an identity that has voted while the phase is active;
\* the failed call leaves the ledger unchanged.
C6_SecondVoteRejected ==
    /\ (/\ lastCall.op = "vote"
        /\ Len(pre.events) > 0
        /\ pre.events[Len(pre.events)].type = "VoteCast"
        /\ pre.events[Len(pre.events)].voter = lastCall.sender)
          => (lastCall.result = AlreadyVoted /\ LedgerUnchanged)
    /\ (/\ lastCall.op = "vote"
        /\ pre.votingActive
        /\ pre.voters[lastCall.sender].hasVoted)
          => (lastCall.result = AlreadyVoted /\ LedgerUnchanged)

\* the second vote named a candidate id that does not exist
C6_Witness ==
    /\ lastCall.op = "vote"
    /\ lastCall.result = AlreadyVoted
    /\ ~candidates[lastCall.candidateId].exists
    /\ events[Len(events)].type = "VoteCast"
    /\ events[Len(events)].voter = lastCall.sender

\* C7: the error of a vote is the first failing check in the order phase,
\* duplicate, existence.
C7_CheckOrder ==
    lastCall.op = "vote" =>
        /\ ~pre.votingActive => lastCall.result = VotingInactive
        /\ (pre.votingActive /\ pre.voters[lastCall.sender].hasVoted)
              => lastCall.result = AlreadyVoted
        /\ lastCall.result = UnknownCandidate
              => /\ pre.votingActive
                 /\ ~pre.voters[lastCall.sender].hasVoted
                 /\ ~pre.candidates[lastCall.candidateId].exists

\* all three checks fail at once and the call reports VotingInactive
C7_Witness ==
    /\ lastCall.op = "vote"
    /\ lastCall.result = VotingInactive
    /\ voters[lastCall.sender].hasVoted
    /\ ~candidates[lastCall.candidateId].exists

\* C8: after any sequence of operations the existing candidate ids are exactly
\* 1..candidateCount, each stored under its own id, and a call leaves every
\* id that existed before it with the same candidate.
C8_DenseStableIds ==
    /\ {i \in CandidateIds : candidates[i].exists} = 1..candidateCount
    /\ \A i \in 1..candidateCount : candidates[i].id = i
    /\ \A i \in CandidateIds : pre.candidates[i].exists =>
          /\ candidates[i].exists
          /\ candidates[i].id = pre.candidates[i].id
          /\ candidates[i].name = pre.candidates[i].name
          /\ candidates[i].description = pre.candidates[i].description

\* a second, different candidate was just added to a ledger that holds a vote
C8_Witness ==
    /\ candidateCount = 2
    /\ pre.candidateCount = 1
    /\ candidates[1].name # candidates[2].name
    /\ candidates[1].voteCount = 1

\* C9: the owner is the deployer in every reachable state.
C9_OwnerIsDeployer == owner = Deployer

\* C10: addCandidate sent by the owner with an empty name or description
\* fails with InvalidInput, adds no candidate and appends no event, so every
\* stored candidate has a non-empty name and description.
C10_EmptyFieldsRejected ==
    /\ (/\ lastCall.op = "addCandidate"
        /\ lastCall.sender = pre.owner
        /\ (lastCall.name = "" \/ lastCall.description = ""))
          => /\ lastCall.result = InvalidInput
             /\ candidates = pre.candidates
             /\ candidateCount = pre.candidateCount
             /\ events = pre.events
    /\ \A i \in CandidateIds : candidates[i].exists =>
          (candidates[i].name # "" /\ candidates[i].description # "")

Errors == {Unauthorized, InvalidInput, InvalidOwner, VotingInactive, AlreadyVoted, UnknownCandidate}

\* C11: a call that ends in an error (Unauthorized, InvalidInput,
\* VotingInactive, AlreadyVoted, UnknownCandidate, the NotFound of getCandidate
\* included) leaves the whole ledger as it was before the call and appends no
\* event.
C11_ErrorsChangeNothing ==
    lastCall.result \in Errors => (LedgerUnchanged /\ events = pre.events)

\* a vote for a candidate id that does not exist was refused on a ledger that
\* holds candidates and a vote
C11_Witness ==
    /\ lastCall.op = "vote"
    /\ lastCall.result = UnknownCandidate
    /\ candidateCount >= 1
    /\ totalVotes >= 1
    /\ Len(events) >= 3

\* C12: a vote for candidate id 0 or an id above candidateCount, sent in the
\* active phase by an identity that has not voted, fails with UnknownCandidate
\* and leaves the sender without a voter record, so that a vote of the same
\* sender for any existing candidate succeeds in the state the failure leaves.
C12_UnknownCandidateKeepsEligibility ==
    (/\ lastCall.op = "vote"
     /\ pre.votingActive
     /\ ~pre.voters[lastCall.sender].hasVoted
     /\ (lastCall.candidateId = 0 \/ lastCall.candidateId > pre.candidateCount))
        => /\ lastCall.result = UnknownCandidate
           /\ voters[lastCall.sender] = NoVoter
           /\ LedgerUnchanged
           /\ \A c \in CandidateIds : candidates[c].exists
                 => voteResult(lastCall.sender, c) = Ok

\* candidate id 0 was refused while a candidate exists that the sender can
\* still vote for and another identity has already voted
C12_Witness ==
    /\ lastCall.op = "vote"
    /\ lastCall.candidateId = 0
    /\ lastCall.result = UnknownCandidate
    /\ \E c \in CandidateIds : candidates[c].exists
    /\ \E a \in Identities : a # lastCall.sender /\ voters[a].hasVoted

\* C13: a vote succeeds exactly when, before the call, the phase is active,
\* the sender has no voter record and the candidate exists; whether the sender
\* is the owner plays no part.
C13_VoteSucceedsIff ==
    lastCall.op = "vote" =>
        (lastCall.result = Ok
            <=> /\ pre.votingActive
                /\ ~pre.voters[lastCall.sender].hasVoted
                /\ pre.candidates[lastCall.candidateId].exists)

\* the owner voted successfully after an identity that is not the owner
C13_Witness ==
    /\ lastCall.op = "vote"
    /\ lastCall.result = Ok
    /\ lastCall.sender = owner
    /\ \E a \in Identities : a # owner /\ voters[a].hasVoted

\* C14: a successful vote of sender s for candidate c adds one to c's
\* voteCount and to totalVotes, gives s the voter record (true, c, block
\* time), appends exactly the event VoteCast(s, c, block time), and changes
\* nothing else.
C14_VoteEffects ==
    (lastCall.op = "vote" /\ lastCall.result = Ok) =>
        LET s == lastCall.sender
            c == lastCall.candidateId
            n == Len(events)
        IN  /\ candidates[c].voteCount = pre.candidates[c].voteCount + 1
            /\ \A i \in CandidateIds \ {c} : candidates[i] = pre.candidates[i]
            /\ candidates[c].name = pre.candidates[c].name
            /\ totalVotes = pre.totalVotes + 1
            /\ pre.voters[s] = NoVoter
            /\ voters[s].hasVoted
            /\ voters[s].votedFor = c
            /\ voters[s].timestamp = blockTimestamp
            /\ \A a \in Identities \ {s} : voters[a] = pre.voters[a]
            /\ n = Len(pre.events) + 1
            /\ SubSeq(events, 1, n - 1) = pre.events
            /\ events[n].type = "VoteCast"
            /\ events[n].voter = s
            /\ events[n].candidateId = c
            /\ events[n].timestamp = blockTimestamp
            /\ candidateCount = pre.candidateCount
            /\ votingActive = pre.votingActive
            /\ owner = pre.owner

\* a vote cast in a later block for a candidate that already had a vote
C14_Witness ==
    /\ lastCall.op = "vote"
    /\ lastCall.result = Ok
    /\ blockTimestamp = MaxTime
    /\ candidates[lastCall.candidateId].voteCount = 2

\* what a successful addCandidate does to the ledger and the log
AddCandidateEffects ==
    LET id == pre.candidateCount + 1
        n == Len(events)
    IN  /\ candidateCount = id
        /\ ~pre.candidates[id].exists
        /\ candidates[id] = [id |-> id, name |-> lastCall.name,
                             description |-> lastCall.description,
                             voteCount |-> 0, exists |-> TRUE]
        /\ \A i \in CandidateIds \ {id} : candidates[i] = pre.candidates[i]
        /\ n = Len(pre.events) + 1
        /\ SubSeq(events, 1, n - 1) = pre.events
        /\ events[n].type = "CandidateAdded"
        /\ events[n].candidateId = id
        /\ events[n].name = lastCall.name
        /\ voters = pre.voters
        /\ totalVotes = pre.totalVotes
        /\ votingActive = pre.votingActive
        /\ owner = pre.owner

\* C15 as stated: a successful addCandidate takes the id candidateCount + 1,
\* stores the candidate with voteCount 0, appends one CandidateAdded(id, name)
\* and returns the new id to the caller.
C15_AddCandidateReturnsId ==
    (lastCall.op = "addCandidate" /\ lastCall.result = Ok) =>
        (AddCandidateEffects /\ lastCall.returns = <<pre.candidateCount + 1>>)

\* C15, amended: a successful addCandidate takes the id candidateCount + 1,
\* stores the candidate with voteCount 0 and appends one CandidateAdded(id,
\* name); the call returns no value, the new id is the one in the event.
C15_AddCandidateEffects ==
    (lastCall.op = "addCandidate" /\ lastCall.result = Ok) =>
        (AddCandidateEffects /\ lastCall.returns = <<>>)

\* a second candidate was added after a vote had been cast
C15_Witness ==
    /\ lastCall.op = "addCandidate"
    /\ lastCall.result = Ok
    /\ candidateCount = 2
    /\ events[Len(events)].candidateId = 2
    /\ totalVotes >= 1

\* C16: toggleVoting sent by the owner succeeds, negates votingActive, appends
\* exactly one VotingStatusChanged carrying the new value and changes nothing
\* else; when the two latest changes of the ledger are both toggles the phase
\* is the one before the first of them and the log holds both events.
C16_ToggleVoting ==
    LET n == Len(events) IN
    /\ (lastCall.op = "toggleVoting" /\ lastCall.sender = pre.owner) =>
          /\ lastCall.result = Ok
          /\ votingActive = ~pre.votingActive
          /\ n = Len(pre.events) + 1
          /\ SubSeq(events, 1, n - 1) = pre.events
          /\ events[n].type = "VotingStatusChanged"
          /\ events[n].active = votingActive
          /\ candidates = pre.candidates
          /\ voters = pre.voters
          /\ candidateCount = pre.candidateCount
          /\ totalVotes = pre.totalVotes
          /\ owner = pre.owner
    /\ (/\ lastCall.op = "toggleVoting"
        /\ lastCall.result = Ok
        /\ Len(pre.events) >= 1
        /\ pre.events[Len(pre.events)].type = "VotingStatusChanged") =>
          /\ votingActive = ~pre.events[Len(pre.events)].active
          /\ events[n - 1].type = "VotingStatusChanged"
          /\ events[n].type = "VotingStatusChanged"
          /\ events[n - 1].active = ~events[n].active
    /\ \A a \in Identities : a = owner => toggleVotingResult(a) = Ok

\* the phase was switched off and at once on again after a vote
C16_Witness ==
    /\ lastCall.op = "toggleVoting"
    /\ lastCall.result = Ok
    /\ votingActive
    /\ Len(events) >= 2
    /\ events[Len(events) - 1].type = "VotingStatusChanged"
    /\ totalVotes >= 1

\* C17: right after construction the phase is inactive, candidateCount and
\* totalVotes are 0, no candidate and no voter record exists, the log is
\* empty and the owner is the identity that deployed the contract.
C17_InitialState ==
    (lastCall = NoCall /\ blockTimestamp = 0) =>
        /\ ~votingActive
        /\ candidateCount = 0
        /\ totalVotes = 0
        /\ \A a \in Identities : ~voters[a].hasVoted
        /\ \A i \in CandidateIds : ~candidates[i].exists
        /\ events = <<>>
        /\ owner = Deployer

\* the contract as the constructor leaves it, no call made yet
C17_Witness ==
    /\ lastCall = NoCall
    /\ blockTimestamp = 0
    /\ owner = Deployer
    /\ candidateCount = 0

\* C18: getCandidate, getAllCandidates, getResults, hasVoted and
\* getVotingStats never change the ledger or the log and never fail, except
\* that getCandidate fails with 'Candidate does not exist' exactly for an id
\* that does not exist; hasVoted answers false for an identity without a
\* voter record.
C18_ReadsChangeNothing ==
    lastCall.op \in ReadOps =>
        /\ LedgerUnchanged
        /\ lastCall.op # "getCandidate" => lastCall.result = Ok
        /\ lastCall.op = "getCandidate" =>
              /\ lastCall.result \in {Ok, UnknownCandidate}
              /\ lastCall.result = UnknownCandidate
                    <=> ~(lastCall.candidateId \in 1..candidateCount)
              /\ lastCall.result = Ok =>
                    lastCall.returns = <<candidates[lastCall.candidateId].name,
                                         candidates[lastCall.candidateId].description,
                                         candidates[lastCall.candidateId].voteCount>>
        /\ lastCall.op = "hasVoted" =>
              (lastCall.returns[1] <=> \E i \in 1..Len(events) :
                   events[i].type = "VoteCast" /\ events[i].voter = lastCall.voter)

\* getCandidate was refused for the id one above candidateCount on a ledger
\* with a vote
C18_Witness ==
    /\ lastCall.op = "getCandidate"
    /\ lastCall.result = UnknownCandidate
    /\ lastCall.candidateId = candidateCount + 1
    /\ candidateCount >= 1
    /\ totalVotes >= 1

\* the number of VoteCast events for candidate i
VotesLogged(i) ==
    Cardinality({k \in 1..Len(events) :
        events[k].type = "VoteCast" /\ events[k].candidateId = i})

\* C19: getResults returns a sequence of length candidateCount whose i-th
\* element is the voteCount of candidate i at the time of the call, which is
\* the number of votes committed for i before the call.
C19_ResultsMatchLedger ==
    lastCall.op = "getResults" =>
        /\ lastCall.result = Ok
        /\ Len(lastCall.returns[1]) = candidateCount
        /\ \A i \in 1..candidateCount :
              /\ lastCall.returns[1][i] = candidates[i].voteCount
              /\ lastCall.returns[1][i] = VotesLogged(i)

\* two candidates with different tallies
C19_Witness ==
    /\ lastCall.op = "getResults"
    /\ lastCall.returns[1] = <<0, 2>>

\* the number of events of one type in the log
Logged(type) == Cardinality({k \in 1..Len(events) : events[k].type = type})

\* C20: getVotingStats returns exactly (candidateCount, totalVotes,
\* votingActive); after two candidates were added, the phase activated and
\* two identities voted for candidate 1 (and nobody else voted), getResults is
\* [2, 0] and the stats are (2, 2, true).
C20_StatsMatchLedger ==
    /\ lastCall.op = "getVotingStats" =>
          /\ lastCall.result = Ok
          /\ lastCall.returns = <<candidateCount, totalVotes, votingActive>>
    /\ (/\ Logged("CandidateAdded") = 2
        /\ Logged("VotingStatusChanged") = 1
        /\ Logged("VoteCast") = 2
        /\ VotesLogged(1) = 2) =>
          /\ lastCall.op = "getVotingStats" => lastCall.returns = <<2, 2, TRUE>>
          /\ lastCall.op = "getResults" => lastCall.returns[1] = <<2, 0>>

\* the stats read at the end of that scenario
C20_Witness ==
    /\ lastCall.op = "getVotingStats"
    /\ lastCall.returns = <<2, 2, TRUE>>
    /\ candidates[1].voteCount = 2
    /\ candidates[2].voteCount = 0

\* the ids of the candidates a result of getLeader names; none when it is null
LeaderIds(leaders) == {leaders.list[k].id : k \in 1..Len(leaders.list)}

\* the candidates of a list no other candidate of the list has more votes than
TopCandidates(list) ==
    {list[k].id : k \in {i \in 1..Len(list) :
                             \A j \in 1..Len(list) : list[j].voteCount <= list[i].voteCount}}

\* the list the panel holds came from the ledger: its candidates are the
\* ledger's first ones, each once, with the votes they had when it was read
LoadedFromLedger ==
    /\ Len(panel.candidates) <= candidateCount
    /\ {panel.candidates[k].id : k \in 1..Len(panel.candidates)} = 1..Len(panel.candidates)
    /\ \A k \in 1..Len(panel.candidates) :
          LET c == panel.candidates[k]
          IN  /\ c.voteCount <= candidates[c.id].voteCount
              /\ c = [candidates[c.id] EXCEPT !.voteCount = c.voteCount]

\* nothing has changed on the ledger since the list the panel holds was read
UpToDate ==
    /\ Len(panel.candidates) = candidateCount
    /\ \A k \in 1..Len(panel.candidates) :
          panel.candidates[k] = candidates[panel.candidates[k].id]

\* C21: the leaders the panel shows are exactly the candidates whose
\* voteCount is the maximum over all candidates of the list it has loaded,
\* none when that list is empty; a tie is shown exactly when more than one
\* candidate has the maximum and the maximum is above 0; the list is one the
\* ledger held, so that for a panel that is up to date these are the maximum
\* over all candidates of the ledger and none when candidateCount is 0.
C21_LeadersAndTie ==
    /\ LoadedFromLedger
    /\ view = "results" =>
          /\ LeaderIds(leadersShown) = TopCandidates(panel.candidates)
          /\ leadersShown.isNull <=> panel.candidates = <<>>
          /\ isTieShown <=>
                /\ Cardinality(TopCandidates(panel.candidates)) > 1
                /\ \E k \in 1..Len(panel.candidates) : panel.candidates[k].voteCount > 0
          /\ UpToDate =>
                /\ LeaderIds(leadersShown) = TopCandidates(allCandidates)
                /\ candidateCount = 0 => LeaderIds(leadersShown) = {}
                /\ isTieShown <=>
                      /\ Cardinality(TopCandidates(allCandidates)) > 1
                      /\ totalVotes > 0

\* the panel shows a tie of two candidates with one vote each, as the ledger
\* has them
C21_Witness ==
    /\ view = "results"
    /\ isTieShown
    /\ UpToDate
    /\ candidates[1].voteCount = 1
    /\ candidates[2].voteCount = 1

\* the positions of the events of one type, in log order
RECURSIVE PositionsOf(_, _)
PositionsOf(type, n) ==
    IF n = 0 THEN <<>>
    ELSE IF events[n].type = type THEN Append(PositionsOf(type, n - 1), n)
    ELSE PositionsOf(type, n - 1)

\* the log before the last step is a prefix of the log after it, which is at
\* most one entry longer
LogExtended ==
    /\ Len(pre.events) <= Len(events)
    /\ SubSeq(events, 1, Len(pre.events)) = pre.events
    /\ Len(events) <= Len(pre.events) + 1

\* C22 as claimed: the log before a step is a prefix of the log after it, so
\* no entry is removed or reordered, and the entries carry a sequence number:
\* one of their numbers, present in every entry, that strictly increases in
\* log order.
C22_SequenceNumbersIncrease ==
    /\ LogExtended
    /\ \E f \in {"candidateId", "timestamp"} :
          /\ \A i \in 1..Len(events) : f \in NumbersOf(events[i])
          /\ \A i, j \in 1..Len(events) : i < j => events[i][f] < events[j][f]

\* C22: the log before a step is a prefix of the log after it, so no entry is
\* removed or reordered; the entries carry no sequence number, their order is
\* their position in the log, and the block times the VoteCast entries carry
\* never go down along the log, without always going up.
C22_LogAppendOnly ==
    /\ LogExtended
    /\ \A i, j \in 1..Len(events) :
          (i < j /\ events[i].type = "VoteCast" /\ events[j].type = "VoteCast")
              => events[i].timestamp <= events[j].timestamp

\* a vote of a later block was appended to a log that already held an event
\* of each type, the VoteCast among them from the block before
C22_Witness ==
    /\ lastCall.op = "vote"
    /\ lastCall.result = Ok
    /\ Len(events) = Len(pre.events) + 1
    /\ events[Len(events)].timestamp = 1
    /\ \E i, j, k \in 1..Len(pre.events) :
          /\ events[i].type = "CandidateAdded"
          /\ events[j].type = "VotingStatusChanged"
          /\ events[k].type = "VoteCast"
          /\ events[k].timestamp = 0

\* C23: the log holds exactly candidateCount CandidateAdded events, the k-th
\* of them carrying id k and the name stored for k, and exactly totalVotes
\* VoteCast events, each for a vote the voter records hold; a call that fails
\* appends nothing.
C23_EventsMatchCommits ==
    LET added == PositionsOf("CandidateAdded", Len(events))
        cast == PositionsOf("VoteCast", Len(events))
    IN  /\ Len(added) = candidateCount
        /\ \A k \in 1..Len(added) :
              /\ events[added[k]].candidateId = k
              /\ events[added[k]].name = candidates[k].name
        /\ Len(cast) = totalVotes
        /\ \A k \in 1..Len(cast) :
              /\ voters[events[cast[k]].voter].hasVoted
              /\ voters[events[cast[k]].voter].votedFor = events[cast[k]].candidateId
        /\ lastCall.result # Ok => events = pre.events
        /\ events # pre.events => lastCall.result = Ok

\* two candidates and two votes committed, and the last call failed
C23_Witness ==
    /\ candidateCount = 2
    /\ totalVotes = 2
    /\ lastCall.op = "addCandidate"
    /\ lastCall.result = Unauthorized

\* C24: a voter record with hasVoted true is left as it is by every step:
\* hasVoted stays true and votedFor keeps its value.
C24_VoterRecordPermanent ==
    \A a \in Identities : pre.voters[a].hasVoted =>
        /\ voters[a].hasVoted
        /\ voters[a].votedFor = pre.voters[a].votedFor

\* an identity that has voted tried to vote for another existing candidate
C24_Witness ==
    /\ lastCall.op = "vote"
    /\ voters[lastCall.sender].hasVoted
    /\ pre.voters[lastCall.sender].hasVoted
    /\ candidates[lastCall.candidateId].exists
    /\ lastCall.candidateId # voters[lastCall.sender].votedFor
    /\ pre.votingActive

\* C25: no step lowers a candidate's voteCount, totalVotes or candidateCount.
C25_CountersNeverDecrease ==
    /\ \A i \in CandidateIds : candidates[i].voteCount >= pre.candidates[i].voteCount
    /\ totalVotes >= pre.totalVotes
    /\ candidateCount >= pre.candidateCount

\* the phase was closed on a ledger holding two votes
C25_Witness ==
    /\ lastCall.op = "toggleVoting"
    /\ lastCall.result = Ok
    /\ ~votingActive
    /\ totalVotes = 2

\* C26: the candidate a successful vote names existed before the call, and
\* every voter record with hasVoted true names a candidate in
\* 1..candidateCount.
C26_VotedForExists ==
    /\ (lastCall.op = "vote" /\ lastCall.result = Ok)
          => pre.candidates[lastCall.candidateId].exists
    /\ \A a \in Identities : voters[a].hasVoted =>
          /\ 1 <= voters[a].votedFor
          /\ voters[a].votedFor <= candidateCount
          /\ candidates[voters[a].votedFor].exists

\* both identities have voted, for different candidates
C26_Witness ==
    /\ \A a \in Identities : voters[a].hasVoted
    /\ \E a, b \in Identities : voters[a].votedFor # voters[b].votedFor

\* C27: a candidate that exists before a step exists after it with the same
\* id, name and description, whatever the step.
C27_CandidatesImmutable ==
    \A k \in CandidateIds : pre.candidates[k].exists =>
        /\ candidates[k].exists
        /\ candidates[k].id = k
        /\ candidates[k].id = pre.candidates[k].id
        /\ candidates[k].name = pre.candidates[k].name
        /\ candidates[k].description = pre.candidates[k].description

\* a candidate received a vote after a second candidate was added
C27_Witness ==
    /\ lastCall.op = "vote"
    /\ lastCall.result = Ok
    /\ lastCall.candidateId = 1
    /\ candidateCount = 2
    /\ candidates[1].name # ""
    /\ candidates[1].voteCount > pre.candidates[1].voteCount

\* the identities whose voter record says they voted, and voted for i
Voted == {a \in Identities : voters[a].hasVoted}
VotedForCandidate(i) == {a \in Voted : voters[a].votedFor = i}

\* C28: every read runs on a state between two transactions, and what it
\* returns counts exactly the votes whose voter record is visible in that
\* state: totalVotes is the number of records with hasVoted true, a
\* candidate's voteCount the number of records naming it, and an identity
\* reported as having voted is counted for the candidate it named.
C28_ReadsSeeWholeVotes ==
    lastCall.op \in ReadOps =>
        /\ lastCall.op = "getVotingStats" =>
              lastCall.returns[2] = Cardinality(Voted)
        /\ lastCall.op = "getResults" =>
              \A i \in 1..candidateCount :
                  lastCall.returns[1][i] = Cardinality(VotedForCandidate(i))
        /\ lastCall.op = "getAllCandidates" =>
              \A i \in 1..candidateCount :
                  lastCall.returns[1][i].voteCount = Cardinality(VotedForCandidate(i))
        /\ lastCall.op = "getCandidate" /\ lastCall.result = Ok =>
              lastCall.returns[3] = Cardinality(VotedForCandidate(lastCall.candidateId))
        /\ lastCall.op = "hasVoted" =>
              (lastCall.returns[1] <=>
                  /\ lastCall.voter \in Voted
                  /\ candidates[voters[lastCall.voter].votedFor].voteCount >= 1
                  /\ totalVotes >= 1)

\* the stats were read right after a vote was committed, another vote being
\* counted already
C28_Witness ==
    /\ lastCall.op = "getVotingStats"
    /\ lastCall.returns[2] = 2
    /\ events[Len(events)].type = "VoteCast"
    /\ Cardinality(Voted) = 2

\* why the provider's check was bound to reject on the ledger the last call
\* found, "" when it was not
FailureExpected ==
    IF ~pre.votingActive THEN VotingInactive
    ELSE IF pre.voters[lastCall.sender].hasVoted THEN AlreadyVoted
    ELSE IF ~pre.candidates[lastCall.candidateId].exists THEN UnknownCandidate
    ELSE ""

\* the last step, of the front end, ended with its transaction in flight
TransactionSent ==
    /\ lastCall.result = Submitted
    /\ lastCall.wallet.stage = "signed"

\* the account's transactions in flight are those in flight when the last
\* step began and, when it sent one, that one behind them; the account's
\* calls waiting for the wallet's user are those waiting then, one more when
\* the step came to wait and one less when the user answered
QueueGrewBySent ==
    /\ Cardinality(inFlight(lastCall.sender)) =
          lastCall.wallet.queued + (IF TransactionSent THEN 1 ELSE 0)
    /\ TransactionSent =>
          \E tx \in inFlight(lastCall.sender) :
              /\ tx.candidateId = lastCall.candidateId
              /\ tx.position = lastCall.wallet.queued + 1
    /\ Cardinality(asking(lastCall.sender)) =
          lastCall.wallet.asked
              + (IF lastCall.wallet.stage = "asking" THEN 1 ELSE 0)
              - (IF lastCall.wallet.stage \in {"signed", "rejected"} THEN 1 ELSE 0)
    /\ lastCall.wallet.stage = "asking" =>
          \E r \in asking(lastCall.sender) :
              /\ r.candidateId = lastCall.candidateId
              /\ r.prompt = lastCall.wallet.asked + 1

\* the last call, of a front-end handler, went on to contract.vote: the
\* provider's check refused it for the ledger's own reason, or the wallet
\* asks
ContractVoteCalled ==
    /\ lastCall.result = Submitted
    /\ lastCall.wallet.stage \in {"refused", "asking"}
    /\ lastCall.wallet.failure = FailureExpected
    /\ lastCall.wallet.stage = "asking" <=> FailureExpected = ""
    /\ QueueGrewBySent
    /\ LedgerUnchanged

\* the wallet's user answered: the transaction is sent exactly when he
\* signed, whatever the ledger has become and whatever any advisory said
WalletDecides ==
    /\ lastCall.advisory = NoAdvisory
    /\ lastCall.wallet.stage \in {"signed", "rejected"}
    /\ lastCall.wallet.failure =
          (IF lastCall.wallet.stage = "signed" THEN "" ELSE UserRejected)
    /\ QueueGrewBySent
    /\ LedgerUnchanged

\* C29: when the advisory call failed, or the service was found unavailable,
\* the handler submits the vote: it calls contract.vote, which is refused at
\* once only for the ledger's own reasons and otherwise sends the transaction
\* when the wallet's user signs, as for the handler that asks no advisory at
\* all; and a submitted vote is accepted or refused by the phase, the
\* sender's voter record and the candidate's existence alone, in that order:
\* the contract's vote takes no advisory input.
C29_LedgerIgnoresAdvisory ==
    /\ (\/ /\ lastCall.op = "handleVoteWithFraudDetection"
            /\ (lastCall.advisory.error \/ ~lastCall.advisory.enabled)
         \/ lastCall.op = "handleVote")
          => ContractVoteCalled
    /\ lastCall.op = "walletAnswers" => WalletDecides
    /\ lastCall.op = "vote" =>
          /\ lastCall.advisory = NoAdvisory
          /\ lastCall.result =
                IF ~pre.votingActive THEN VotingInactive
                ELSE IF pre.voters[lastCall.sender].hasVoted THEN AlreadyVoted
                ELSE IF ~pre.candidates[lastCall.candidateId].exists THEN UnknownCandidate
                ELSE Ok

\* the advisory call failed and the handler went on to the wallet all the
\* same, behind a question the wallet already has for the account, on a
\* ledger that holds a vote
C29_Witness ==
    /\ lastCall.op = "handleVoteWithFraudDetection"
    /\ lastCall.advisory.enabled
    /\ lastCall.advisory.error
    /\ lastCall.wallet.stage = "asking"
    /\ lastCall.wallet.asked = 1
    /\ totalVotes >= 1

\* a vote, then the phase closed, then opened again
ReopenedAfterVoteOf(log, a) ==
    \E i, j, k \in 1..Len(log) :
        /\ i < j /\ j < k
        /\ log[i].type = "VoteCast" /\ log[i].voter = a
        /\ log[j].type = "VotingStatusChanged" /\ ~log[j].active
        /\ log[k].type = "VotingStatusChanged" /\ log[k].active

\* C30: a successful toggle changes no voteCount, totalVotes or voter record;
\* while the phase is off every vote fails with VotingInactive, also that of
\* an identity that has not voted; once the phase is on again after a vote,
\* an identity that has not voted can vote and the one that voted cannot.
C30_VotesSurviveToggles ==
    /\ (lastCall.op = "toggleVoting" /\ lastCall.result = Ok) =>
          /\ candidates = pre.candidates
          /\ totalVotes = pre.totalVotes
          /\ voters = pre.voters
    /\ (lastCall.op = "vote" /\ ~pre.votingActive) =>
          (lastCall.result = VotingInactive /\ LedgerUnchanged)
    /\ (/\ lastCall.op = "vote"
        /\ pre.votingActive
        /\ \E a \in Identities : ReopenedAfterVoteOf(pre.events, a)) =>
          /\ ReopenedAfterVoteOf(pre.events, lastCall.sender)
                => lastCall.result = AlreadyVoted
          /\ (/\ ~pre.voters[lastCall.sender].hasVoted
              /\ pre.candidates[lastCall.candidateId].exists)
                => lastCall.result = Ok

\* the second identity voted after the phase had been closed and opened again
\* behind the first identity's vote, which is still recorded
C30_Witness ==
    /\ lastCall.op = "vote"
    /\ lastCall.result = Ok
    /\ \E a \in Identities :
          /\ a # lastCall.sender
          /\ ReopenedAfterVoteOf(pre.events, a)
          /\ voters[a].hasVoted
    /\ totalVotes = 2

\* C31: in every reachable state the voteCount of every candidate is the
\* number of identities whose voter record has hasVoted true and names that
\* candidate.
C31_VoteCountIsRecordCount ==
    \A i \in CandidateIds : candidates[i].voteCount = Cardinality(VotedForCandidate(i))

\* two recorded voters for one candidate, none for the other
C31_Witness ==
    /\ candidateCount = 2
    /\ \E i \in 1..2 : Cardinality(VotedForCandidate(i)) = 2
    /\ \E i \in 1..2 : candidates[i].voteCount = 0

\* C32: in every reachable state totalVotes is the number of identities with
\* hasVoted true; an identity gets hasVoted only by a vote call of its own,
\* so totalVotes never exceeds the number of identities that called vote.
C32_TotalIsVoterCount ==
    /\ totalVotes = Cardinality(Voted)
    /\ Voted = {a \in Identities : VoteCastBy(a) # {}}
    /\ \A a \in Voted : ~pre.voters[a].hasVoted =>
          (lastCall.op = "vote" /\ lastCall.sender = a /\ lastCall.result = Ok)

\* a repeated call of an identity that has voted is not counted
C32_Witness ==
    /\ lastCall.op = "vote"
    /\ lastCall.result = AlreadyVoted
    /\ votingActive
    /\ totalVotes = 1
    /\ Cardinality(Voted) = 1

\* C33: a candidate exists under id i exactly when 1 <= i <= candidateCount
\* and then carries i as its id; id 0 never exists, so every vote(0) and
\* every getCandidate(0) fails.
C33_ExistsIffInRange ==
    /\ \A i \in CandidateIds :
          /\ candidates[i].exists <=> (1 <= i /\ i <= candidateCount)
          /\ candidates[i].exists => candidates[i].id = i
    /\ ~candidates[0].exists
    /\ (lastCall.op = "vote" /\ lastCall.candidateId = 0) =>
          lastCall.result \in {VotingInactive, AlreadyVoted, UnknownCandidate}
    /\ (lastCall.op = "getCandidate" /\ lastCall.candidateId = 0) =>
          lastCall.result = UnknownCandidate

\* getCandidate(0) was refused on a ledger with two candidates and a vote
C33_Witness ==
    /\ lastCall.op = "getCandidate"
    /\ lastCall.candidateId = 0
    /\ lastCall.result = UnknownCandidate
    /\ candidateCount = 2
    /\ totalVotes >= 1

\* C34: a successful vote of s for c leaves candidateCount, the phase and the
\* owner as they were, and also the voteCount of every other candidate, the
\* id, name, description and existence of every candidate, and the voter
\* record of every other identity.
C34_VoteFrame ==
    (lastCall.op = "vote" /\ lastCall.result = Ok) =>
        /\ candidateCount = pre.candidateCount
        /\ votingActive = pre.votingActive
        /\ owner = pre.owner
        /\ \A i \in CandidateIds :
              /\ i # lastCall.candidateId =>
                    candidates[i].voteCount = pre.candidates[i].voteCount
              /\ candidates[i].name = pre.candidates[i].name
              /\ candidates[i].description = pre.candidates[i].description
              /\ candidates[i].id = pre.candidates[i].id
              /\ candidates[i].exists = pre.candidates[i].exists
        /\ \A a \in Identities :
              a # lastCall.sender => voters[a] = pre.voters[a]

\* a vote for candidate 1 while candidate 2 holds the vote of another identity
C34_Witness ==
    /\ lastCall.op = "vote"
    /\ lastCall.result = Ok
    /\ lastCall.candidateId = 1
    /\ candidates[2].voteCount = 1
    /\ \E a \in Identities : a # lastCall.sender /\ voters[a].votedFor = 2

\* C35: addCandidate sent by the owner with a name and a description
\* succeeds whatever the phase and the votes cast; it leaves the phase,
\* totalVotes, every existing candidate and every voter record as they were;
\* in the state it leaves, a vote for the new candidate by an identity that
\* has not voted passes all checks when the phase is active, and such a vote
\* sent next succeeds.
C35_AddCandidateAnyPhase ==
    /\ (/\ lastCall.op = "addCandidate"
        /\ lastCall.sender = pre.owner
        /\ lastCall.name # "" /\ lastCall.description # "") =>
          /\ lastCall.result = Ok
          /\ candidateCount = pre.candidateCount + 1
          /\ votingActive = pre.votingActive
          /\ totalVotes = pre.totalVotes
          /\ voters = pre.voters
          /\ \A i \in 1..pre.candidateCount : candidates[i] = pre.candidates[i]
          /\ votingActive =>
                \A a \in Identities \ Voted : voteResult(a, candidateCount) = Ok
    /\ (/\ lastCall.op = "vote"
        /\ pre.votingActive
        /\ ~pre.voters[lastCall.sender].hasVoted
        /\ Len(pre.events) >= 1
        /\ pre.events[Len(pre.events)].type = "CandidateAdded"
        /\ pre.events[Len(pre.events)].candidateId = lastCall.candidateId) =>
          /\ lastCall.result = Ok
          /\ candidates[lastCall.candidateId].voteCount = 1

\* a candidate added in the active phase after a vote had been cast received
\* the vote of another identity
C35_Witness ==
    /\ lastCall.op = "vote"
    /\ lastCall.result = Ok
    /\ lastCall.candidateId = 2
    /\ Len(pre.events) >= 2
    /\ pre.events[Len(pre.events)].type = "CandidateAdded"
    /\ pre.events[Len(pre.events) - 1].type = "VoteCast"
    /\ totalVotes = 2

\* C36: in every reachable state votingActive is the flag carried by the
\* latest VotingStatusChanged event, false when there is none, and it is true
\* exactly when the number of these events, one per successful toggleVoting,
\* is odd.
C36_PhaseMatchesLog ==
    LET changes == PositionsOf("VotingStatusChanged", Len(events)) IN
    /\ votingActive = IF changes = <<>> THEN FALSE
                      ELSE events[changes[Len(changes)]].active
    /\ votingActive <=> (Len(changes) % 2 = 1)
    /\ (lastCall.op = "toggleVoting" /\ lastCall.result = Ok)
          <=> Len(changes) = Len(PositionsOf("VotingStatusChanged", Len(pre.events))) + 1

\* the phase is active after three toggles, a vote having been cast in between
C36_Witness ==
    /\ votingActive
    /\ Len(PositionsOf("VotingStatusChanged", Len(events))) = 3
    /\ totalVotes = 1

\* C37: with fraud detection enabled and an answer without error the handler
\* never submits above 0.9, confirmed or not; above 0.5 and up to 0.9 it
\* submits exactly when the user confirms; up to 0.5 it always submits. To
\* submit is to call contract.vote; without a submission the wallet is not
\* asked and nothing is put in flight.
C37_HandlerThresholds ==
    (/\ lastCall.op = "handleVoteWithFraudDetection"
     /\ lastCall.advisory.enabled
     /\ ~lastCall.advisory.error) =>
          LET p == lastCall.advisory.fraud_probability
              submitted == lastCall.result = Submitted
          IN  /\ p > 90 => ~submitted
              /\ (p > 50 /\ p <= 90) => (submitted <=> lastCall.advisory.confirms)
              /\ p <= 50 => submitted
              /\ submitted => ContractVoteCalled
              /\ ~submitted => lastCall.wallet.stage = "none"
              /\ QueueGrewBySent
              /\ LedgerUnchanged

\* a probability above 0.9 was blocked although the user had confirmed, while
\* the account has a transaction in flight, which stays alone
C37_Witness ==
    /\ lastCall.op = "handleVoteWithFraudDetection"
    /\ lastCall.advisory.enabled
    /\ ~lastCall.advisory.error
    /\ lastCall.advisory.fraud_probability > 90
    /\ lastCall.advisory.confirms
    /\ lastCall.result = Blocked
    /\ inFlight(lastCall.sender) # {}
    /\ asking(lastCall.sender) # {}

====
